---- MODULE Spec2Model ----
(***************************************************************************)
(* Model of GeneticFeatureOptimizer (src/core/genetic_optimizer.py): the   *)
(* constructor, the operators and the generational loop of evolve(); and   *)
(* of the upload handling of /api/optimize (src/app.py).                   *)
(*                                                                         *)
(* Numbers.  Python floats are modelled exactly where the code only        *)
(* compares or divides small integers: feature_ratio, diversity and the    *)
(* averages are rationals <<numerator, denominator>>.  Accuracies are      *)
(* fixed point in units of 1/AccOne, the combined fitness is fixed point   *)
(* in units of 1/(4*AccOne), rates are fixed point in units of 1/RateOne.  *)
(* Chromosomes are functions 1..F -> {0,1}; index i of the model is index  *)
(* i-1 of the numpy array.                                                 *)
(***************************************************************************)
EXTENDS Integers, Sequences, FiniteSets, TLC

\* ------------------------------------------------------------------ bounds
MaxF == 2
MaxN == 3
\* most calls of evaluate_fitness in one execution: N * G <= MaxWork
MaxWork == 4
\* /api/optimize requests served at the same time
MaxRequests == 2

\* ------------------------------------------------------- program constants
AccOne == 1000
RateOne == 10000
DefaultMutationRate == 1500
DefaultCrossoverRate == 8500
DefaultTournamentSize == 5
DiversitySample == 50

\* The values the constructor is called with (X of F columns, a y with as
\* many rows as X or not).  elite_size is given in
\* tenths (1 = the default 0.1).
FeatureCounts == 0..MaxF
PopulationSizes == 0..MaxN
GenerationBudgets == 0..MaxWork
EliteTenths == {1, 7}
TournamentSizes == {2, DefaultTournamentSize}

\* What the classifier scorer can do on one call: raise, or return a mean
\* accuracy (here 0.5 or 1.0).
Accuracies == {AccOne \div 2, AccOne}
ScorerFails == [ok |-> FALSE, accuracy |-> 0]
ScorerOutcomes == {ScorerFails} \cup {[ok |-> TRUE, accuracy |-> a] : a \in Accuracies}
\* A scorer that depends on the selected columns only (the folds and the
\* forest are seeded with random_state=42) is a table from chromosomes to
\* outcomes; a scorer whose outcome may differ from call to call has no
\* table.
Unpredictable == <<>>
ScorerOn(table, chromosome, outcomes) ==
    IF table = Unpredictable THEN outcomes ELSE {table[chromosome]}

\* -np.inf: below every fitness, which is never negative
NegInf == -1
\* None, for the values that are arrays or fractions
None == <<>>
\* an attribute or local that has not been assigned (a number)
NoNumber == -1
NoResult == [selected_features |-> <<>>, feature_count |-> 0, accuracy |-> 0,
             fitness_score |-> 0, feature_ratio |-> None,
             evolution_history |-> <<>>]
\* the frame of __init__ after it has returned
NoArgs == [F |-> 0, N |-> 0, G |-> 0, elite_tenths |-> 0, tournament_size |-> 0,
           mutation_rate |-> 0, rows_match |-> FALSE, scorer |-> Unpredictable]
NoCall == [method |-> "none", chromosome |-> <<>>, outcome |-> ScorerFails, returned |-> FALSE,
           triple |-> [accuracy |-> 0, feature_ratio |-> <<>>, combined_fitness |-> 0],
           scorer_called |-> FALSE]

VARIABLES
    pc,                     \* position of the caller / of evolve()
    args,                   \* arguments given to __init__
    rows_match,             \* self.X and self.y have the same number of rows
    scorer,                 \* what cross-validation on self.X, self.y gives
    n_features, population_size, generations,
    initial_mutation_rate, current_mutation_rate, crossover_rate,
    elite_count, tournament_size,
    best_chromosome, best_fitness, best_accuracy, best_feature_ratio,
    evolution_history,
    population, generation, fitness_data, diversity, new_population,
    result,
    raised,                 \* where an exception left the call, or "none"
    call,                   \* a caller's direct call of one operator
    upload_folder,          \* the files in app.config['UPLOAD_FOLDER']
    request                 \* the /api/optimize requests being served

self_vars == <<rows_match, scorer, n_features, population_size, generations,
               initial_mutation_rate, current_mutation_rate, crossover_rate,
               elite_count, tournament_size>>
best_vars == <<best_chromosome, best_fitness, best_accuracy, best_feature_ratio>>
local_vars == <<population, generation, fitness_data, diversity, new_population>>
app_vars == <<upload_folder, request>>
optimizer_vars == <<pc, args, self_vars, best_vars, evolution_history,
                    local_vars, result, raised, call>>
vars == <<optimizer_vars, app_vars>>

\* ----------------------------------------------------------------- helpers
Max(a, b) == IF a >= b THEN a ELSE b
Min(a, b) == IF a <= b THEN a ELSE b

RECURSIVE SumSeq(_)
SumSeq(s) == IF s = <<>> THEN 0 ELSE Head(s) + SumSeq(Tail(s))

\* floor of the square root
RECURSIVE ISqrtBetween(_, _, _)
ISqrtBetween(x, lo, hi) ==
    IF lo = hi THEN lo
    ELSE LET mid == (lo + hi + 1) \div 2
         IN  IF mid * mid <= x THEN ISqrtBetween(x, mid, hi)
             ELSE ISqrtBetween(x, lo, mid - 1)
ISqrt(x) == ISqrtBetween(x, 0, AccOne)

RECURSIVE GCD(_, _)
GCD(a, b) == IF b = 0 THEN a ELSE GCD(b, a % b)
\* the float n / d, kept as a fraction in lowest terms
Rat(n, d) == IF n = 0 THEN <<0, 1>> ELSE <<n \div GCD(n, d), d \div GCD(n, d)>>

RatEq(a, b) == a[1] * b[2] = b[1] * a[2]
RatLess(a, b) == a[1] * b[2] < b[1] * a[2]

Chromosomes(F) == [1..F -> {0, 1}]
\* np.sum(chromosome) and np.where(chromosome == 1)[0]
Ones(c) == Cardinality({i \in DOMAIN c : c[i] = 1})

\* np.argmax: the first index holding the maximum
ArgMax(s) == CHOOSE i \in 1..Len(s) :
                 /\ \A j \in 1..Len(s) : s[j] <= s[i]
                 /\ \A j \in 1..(i - 1) : s[j] < s[i]

\* np.max
MaxOf(scores) == scores[ArgMax(scores)]

FitnessScores(fd) == [i \in 1..Len(fd) |-> fd[i].combined_fitness]
AccuracyScores(fd) == [i \in 1..Len(fd) |-> fd[i].accuracy]

\* ------------------------------------------------------------ __init__
\* StandardScaler.fit_transform (line 50) rejects a matrix without columns;
\* nothing else in the constructor looks at its arguments.
ConstructRaises(a) == a.F = 0

\* self.elite_count = max(1, int(population_size * elite_size))
EliteCount(N, tenths) == Max(1, (N * tenths) \div 10)

Construct ==
    /\ pc = "new"
    /\ IF ConstructRaises(args)
       THEN /\ pc' = "construct_error"
            /\ raised' = "__init__"
            /\ UNCHANGED <<args, self_vars, best_vars, evolution_history>>
       ELSE /\ pc' = "constructed"
            /\ args' = NoArgs
            /\ rows_match' = args.rows_match
            /\ scorer' = args.scorer
            /\ n_features' = args.F
            /\ population_size' = args.N
            /\ generations' = args.G
            /\ initial_mutation_rate' = args.mutation_rate
            /\ current_mutation_rate' = args.mutation_rate
            /\ crossover_rate' = DefaultCrossoverRate
            /\ elite_count' = EliteCount(args.N, args.elite_tenths)
            /\ tournament_size' = args.tournament_size
            /\ best_chromosome' = None
            /\ best_fitness' = NegInf
            /\ evolution_history' = <<>>
            /\ UNCHANGED <<best_accuracy, best_feature_ratio, raised>>
    /\ UNCHANGED <<local_vars, result, call>>
    /\ UNCHANGED app_vars

\* ------------------------------------------------ initialize_population
\* The sizes of the three bands: range(int(N*0.6)), range(int(N*0.2)) and
\* range(N - len(population)).
Band1Size(N) == (6 * N) \div 10
Band2Size(N) == (2 * N) \div 10
\* range(k) is empty for k <= 0
Band3Size(N) == Max(0, N - (Band1Size(N) + Band2Size(N)))
BandSize(band, N) ==
    CASE band = 1 -> Band1Size(N) [] band = 2 -> Band2Size(N) [] band = 3 -> Band3Size(N)

\* The values n_selected can take in each band.
\*   band 1: max(1, int(F * uniform(0.2, 0.7)))
\*   band 2: randint(1, max(2, F // 4))
\*   band 3: randint(max(1, F // 2), max(2, int(F * 0.8)))
NSelected(band, F) ==
    CASE band = 1 -> {Max(1, k) : k \in ((2 * F) \div 10)..((7 * F) \div 10)}
      [] band = 2 -> 1..Max(2, F \div 4)
      [] band = 3 -> Max(1, F \div 2)..Max(2, (8 * F) \div 10)

\* random.sample(range(F), n) raises ValueError when n > F
SampleRaises(F, n) == n > F

\* chromosome = zeros(F); chromosome[random.sample(range(F), n)] = 1
SampledChromosomes(F, n) == {c \in Chromosomes(F) : Ones(c) = n}

\* Some draw of some individual asks for more indices than there are.
InitializePopulationCanRaise(N, F) ==
    \E band \in 1..3 :
        /\ BandSize(band, N) >= 1
        /\ \E n \in NSelected(band, F) : SampleRaises(F, n)

\* the chromosomes one pass of the loop of a band can append
BandChromosomes(band, F) ==
    UNION {SampledChromosomes(F, n) : n \in {m \in NSelected(band, F) : ~SampleRaises(F, m)}}

\* the lists the loop of a band can append
BandPopulations(band, N, F) == [1..BandSize(band, N) -> BandChromosomes(band, F)]

\* The populations initialize_population can return: the three bands in
\* the order of the three loops.
InitialPopulations(N, F) ==
    {b1 \o b2 \o b3 : b1 \in BandPopulations(1, N, F),
                      b2 \in BandPopulations(2, N, F),
                      b3 \in BandPopulations(3, N, F)}

\* ------------------------------------------------------ evaluate_fitness
\* feature_ratio ** 1.5 for feature_ratio = k / F, in units of 1/AccOne
Pow15(k, F) == ISqrt((AccOne * AccOne * k * k * k) \div (F * F * F))

\* accuracy * 0.75 + (1.0 - feature_ratio ** 1.5) * 0.25, in units of
\* 1/(4*AccOne)
CombinedFitness(accuracy, k, F) == 3 * accuracy + (AccOne - Pow15(k, F))

\* return 0.0, 1.0, 0.0
WorstTriple == [accuracy |-> 0, feature_ratio |-> Rat(1, 1), combined_fitness |-> 0]

\* mutant: the except branch reports the ratio of the chromosome
EvaluateFitnessRatioKept(chromosome, F, consistent, outcome) ==
    IF Ones(chromosome) = 0
    THEN [triple |-> WorstTriple, scorer_called |-> FALSE]
    ELSE [triple |-> [accuracy |-> IF outcome.ok /\ consistent
                                   THEN outcome.accuracy ELSE 0,
                      feature_ratio |-> Rat(Ones(chromosome), F),
                      combined_fitness |->
                          IF outcome.ok /\ consistent
                          THEN CombinedFitness(outcome.accuracy, Ones(chromosome), F)
                          ELSE 0],
          scorer_called |-> TRUE]

\* evaluate_fitness(chromosome) when the scorer behaves as `outcome`;
\* consistent = FALSE is an X and a y of different lengths, on which
\* cross_val_score raises.  scorer_called tells whether the try block was
\* entered.
EvaluateFitness(chromosome, F, consistent, outcome) ==
    IF Ones(chromosome) = 0
    THEN [triple |-> WorstTriple, scorer_called |-> FALSE]
    ELSE IF ~outcome.ok \/ ~consistent
    THEN [triple |-> WorstTriple, scorer_called |-> TRUE]
    ELSE [triple |-> [accuracy |-> outcome.accuracy,
                      feature_ratio |-> Rat(Ones(chromosome), F),
                      combined_fitness |->
                          CombinedFitness(outcome.accuracy, Ones(chromosome), F)],
          scorer_called |-> TRUE]

\* ---------------------------------------------------- calculate_diversity
Hamming(a, b) == Cardinality({i \in DOMAIN a : a[i] # b[i]})

RECURSIVE PairDistances(_, _, _, _)
\* total_distance over the pairs (i, j), i < j < m, from (i, j) on
PairDistances(pop, m, i, j) ==
    IF i >= m THEN 0
    ELSE IF j > m THEN PairDistances(pop, m, i + 1, i + 2)
    ELSE Hamming(pop[i], pop[j]) + PairDistances(pop, m, i, j + 1)

\* mutant: the total distance is divided by the number of pairs only
CalculateDiversityPerPair(pop, F) ==
    IF Len(pop) < 2 THEN Rat(0, 1)
    ELSE LET m == Min(DiversitySample, Len(pop))
             comparisons == (m * (m - 1)) \div 2
         IN  Rat(PairDistances(pop, m, 1, 2), comparisons)

\* lines 139-155: 0.0 below two individuals, else total_distance /
\* (comparisons * n_features) over the first DiversitySample individuals
CalculateDiversity(pop, F) ==
    IF Len(pop) < 2 THEN Rat(0, 1)
    ELSE LET m == Min(DiversitySample, Len(pop))
             comparisons == (m * (m - 1)) \div 2
         IN  Rat(PairDistances(pop, m, 1, 2), comparisons * F)

\* ---------------------------------------------------- adapt_mutation_rate
\* mutant: a diversity of exactly 0.4 already counts as high
AdaptedMutationRateInclusive(m0, d) ==
    IF ~RatLess(d, <<2, 5>>) THEN (m0 * 7) \div 10
    ELSE IF RatLess(d, <<1, 5>>) THEN Min((3 * RateOne) \div 10, (m0 * 15) \div 10)
    ELSE m0

\* the value self.current_mutation_rate gets for diversity d
AdaptedMutationRate(m0, d) ==
    IF RatLess(<<2, 5>>, d) THEN (m0 * 7) \div 10
    ELSE IF RatLess(d, <<1, 5>>) THEN Min((3 * RateOne) \div 10, (m0 * 15) \div 10)
    ELSE m0

\* ---------------------------------------------------------- numpy arrays
\* The operators hand arrays around by reference.  An array is modelled as
\* its value and its identity: alias = i says that the array is the very
\* object at index i of the population (a write into it changes that
\* member), alias = 0 that it is an object of its own.
Member(pop, i) == [alias |-> i, value |-> pop[i]]
NewArray(v) == [alias |-> 0, value |-> v]

\* mutant: the array itself is handed on where the code takes a copy
ArrayCopyMissing(a) == a

\* ndarray.copy()
ArrayCopy(a) == NewArray(a.value)

\* what the array holds now, the population being pop
Deref(pop, a) == IF a.alias = 0 THEN a.value ELSE pop[a.alias]

\* the population after the array a has been given the value v in place
Written(pop, a, v) == IF a.alias = 0 THEN pop ELSE [pop EXCEPT ![a.alias] = v]

\* --------------------------------------------------- tournament_selection
\* random.sample(range(n), k): the sequences of k distinct indices
IndexSamples(n, k) ==
    {s \in [1..k -> 1..n] : \A a, b \in 1..k : a # b => s[a] # s[b]}

TournamentWinner(sample, fitness_scores) ==
    sample[ArgMax([k \in 1..Len(sample) |-> fitness_scores[sample[k]]])]

\* random.sample raises ValueError for a negative size, np.argmax for an
\* empty tournament
TournamentRaises(pop, t) == Min(t, Len(pop)) < 1

\* mutant: the winner itself is returned, not a copy of it
TournamentSelectionOfMember(pop, fitness_scores, t) ==
    {[tournament_indices |-> s,
      winner_idx |-> TournamentWinner(s, fitness_scores),
      returned |-> Member(pop, TournamentWinner(s, fitness_scores))] :
        s \in IndexSamples(Len(pop), Min(t, Len(pop)))}

\* what a call of tournament_selection that returns can do: the indices
\* drawn, the winner and the array returned, population[winner_idx].copy()
TournamentSelection(pop, fitness_scores, t) ==
    {[tournament_indices |-> s,
      winner_idx |-> TournamentWinner(s, fitness_scores),
      returned |-> ArrayCopy(Member(pop, TournamentWinner(s, fitness_scores)))] :
        s \in IndexSamples(Len(pop), Min(t, Len(pop)))}

\* ------------------------------------------------------ uniform_crossover
\* mutant: the all-zero check is left out
RepairSkipped(c, F) == {c}

\* if np.sum(c) == 0: c[random.randint(0, F - 1)] = 1
Repair(c, F) ==
    IF Ones(c) = 0 THEN {[c EXCEPT ![i] = 1] : i \in 1..F} ELSE {c}

\* random.random() lies in [0, 1): `random.random() > rate` can be true iff
\* rate < 1, and can be false iff rate >= 0.
SkipCrossoverPossible(rate) == rate < RateOne
DoCrossoverPossible(rate) == rate >= 0

\* mutant: child2 takes its gene from the same parent as child1
CrossedFromOneParent(parent1, parent2, coin) ==
    <<[i \in DOMAIN parent1 |-> IF coin[i] THEN parent1[i] ELSE parent2[i]],
      [i \in DOMAIN parent1 |-> IF coin[i] THEN parent1[i] ELSE parent2[i]]>>

\* the children before repair, for one outcome of the per-gene coin
Crossed(parent1, parent2, coin) ==
    <<[i \in DOMAIN parent1 |-> IF coin[i] THEN parent1[i] ELSE parent2[i]],
      [i \in DOMAIN parent1 |-> IF coin[i] THEN parent2[i] ELSE parent1[i]]>>

\* What a call of uniform_crossover on the arrays parent1 and parent2 can
\* do.  crossed tells which branch was taken; before_repair are the values
\* of child1 and child2 after the loop of lines 193-199; child1 and child2
\* are the arrays returned: copies of the parents (line 188) or the new
\* arrays of lines 190-191.
UniformCrossover(parent1, parent2, F, rate) ==
    (IF SkipCrossoverPossible(rate)
     THEN {[crossed |-> FALSE,
            before_repair |-> <<parent1.value, parent2.value>>,
            child1 |-> ArrayCopy(parent1), child2 |-> ArrayCopy(parent2)]}
     ELSE {})
    \cup
    (IF DoCrossoverPossible(rate)
     THEN UNION {{[crossed |-> TRUE,
                   before_repair |-> Crossed(parent1.value, parent2.value, coin),
                   child1 |-> NewArray(c1), child2 |-> NewArray(c2)] :
                     c1 \in Repair(Crossed(parent1.value, parent2.value, coin)[1], F),
                     c2 \in Repair(Crossed(parent1.value, parent2.value, coin)[2], F)} :
                 coin \in [1..F -> BOOLEAN]}
     ELSE {})

\* ------------------------------------------------------ adaptive_mutation
\* `random.random() < rate` can be true iff rate > 0, false iff rate < 1
FlipChoices(rate) ==
    {b \in BOOLEAN : (b => rate > 0) /\ (~b => rate < RateOne)}

Flipped(c, flip) == [i \in DOMAIN c |-> IF flip[i] THEN 1 - c[i] ELSE c[i]]

\* The arrays adaptive_mutation(chromosome) can return: mutated =
\* chromosome.copy() (line 213) after the flips and the repair, which are
\* written into mutated in place.
AdaptiveMutation(chromosome, F, rate) ==
    {[alias |-> ArrayCopy(chromosome).alias, value |-> v] :
        v \in UNION {Repair(Flipped(chromosome.value, flip), F) :
                        flip \in [DOMAIN chromosome.value -> FlipChoices(rate)]}}

\* ------------------------------------------------------------------ evolve
\* line 230: population = self.initialize_population().  random.sample
\* raises out of evolve() when a draw asks for more than F indices.
InitializePopulation ==
    /\ pc = "constructed"
    /\ \/ /\ InitializePopulationCanRaise(population_size, n_features)
          /\ pc' = "error"
          /\ raised' = "initialize_population"
          /\ UNCHANGED local_vars
       \/ /\ \E p \in InitialPopulations(population_size, n_features) :
                 population' = p
          /\ generation' = 0
          /\ pc' = IF generations > 0 THEN "evaluate" ELSE "return"
          /\ UNCHANGED <<fitness_data, diversity, new_population, raised>>
    /\ UNCHANGED <<args, self_vars, best_vars, evolution_history, result, call>>
    /\ UNCHANGED app_vars

\* lines 235-238: fitness_data = [self.evaluate_fitness(ind) for ind in population]
EvaluatePopulation ==
    /\ pc = "evaluate"
    /\ \E outcomes \in [1..Len(population) -> ScorerOutcomes] :
          /\ \A i \in 1..Len(population) :
                 outcomes[i] \in ScorerOn(scorer, population[i], ScorerOutcomes)
          /\ fitness_data' =
                 [i \in 1..Len(population) |->
                     EvaluateFitness(population[i], n_features, rows_match,
                                     outcomes[i]).triple]
    /\ pc' = "track_best"
    /\ UNCHANGED <<args, self_vars, best_vars, evolution_history, population,
                   generation, diversity, new_population, result, raised, call>>
    /\ UNCHANGED app_vars

\* mutant: the generation's best always replaces the stored one
ImprovesBestAlways(fitness, best) == TRUE

\* mutant: a generation's best of equal fitness replaces the stored one
ImprovesBestOrEqual(fitness, best) == fitness >= best

\* line 242: if fitness_scores[best_idx] > self.best_fitness
ImprovesBest(fitness, best) == fitness > best

\* lines 241-246.  np.argmax raises ValueError on an empty sequence.
TrackBest ==
    /\ pc = "track_best"
    /\ IF Len(fitness_data) = 0
       THEN /\ pc' = "error"
            /\ raised' = "evolve"
            /\ UNCHANGED best_vars
       ELSE LET best_idx == ArgMax(FitnessScores(fitness_data)) IN
            /\ IF ImprovesBest(fitness_data[best_idx].combined_fitness, best_fitness)
               THEN /\ best_fitness' = fitness_data[best_idx].combined_fitness
                    /\ best_chromosome' = population[best_idx]
                    /\ best_accuracy' = fitness_data[best_idx].accuracy
                    /\ best_feature_ratio' = fitness_data[best_idx].feature_ratio
               ELSE UNCHANGED best_vars
            /\ pc' = "adapt"
            /\ UNCHANGED raised
    /\ UNCHANGED <<args, self_vars, evolution_history, local_vars, result, call>>
    /\ UNCHANGED app_vars

\* mutant: the rate is adapted to the diversity measured one generation
\* earlier
AdaptMutationRateStale ==
    /\ pc = "adapt"
    /\ diversity' = CalculateDiversity(population, n_features)
    /\ current_mutation_rate' =
          IF diversity = None THEN current_mutation_rate
          ELSE AdaptedMutationRate(initial_mutation_rate, diversity)
    /\ pc' = "record"
    /\ UNCHANGED <<args, rows_match, scorer, n_features, population_size, generations,
                   initial_mutation_rate, crossover_rate, elite_count,
                   tournament_size, best_vars, evolution_history, population,
                   generation, fitness_data, new_population, result, raised, call>>
    /\ UNCHANGED app_vars

\* lines 249-250: diversity = self.calculate_diversity(population);
\* self.adapt_mutation_rate(diversity)
AdaptMutationRate ==
    /\ pc = "adapt"
    /\ diversity' = CalculateDiversity(population, n_features)
    /\ current_mutation_rate' = AdaptedMutationRate(initial_mutation_rate, diversity')
    /\ pc' = "record"
    /\ UNCHANGED <<args, rows_match, scorer, n_features, population_size, generations,
                   initial_mutation_rate, crossover_rate, elite_count,
                   tournament_size, best_vars, evolution_history, population,
                   generation, fitness_data, new_population, result, raised, call>>
    /\ UNCHANGED app_vars

\* the dictionary appended at lines 253-262
GenerationStatistics ==
    [generation |-> generation + 1,
     best_fitness |-> best_fitness,
     best_accuracy |-> best_accuracy,
     avg_fitness |-> Rat(SumSeq(FitnessScores(fitness_data)), Len(fitness_data)),
     avg_accuracy |-> Rat(SumSeq(AccuracyScores(fitness_data)), Len(fitness_data)),
     feature_count |-> Ones(best_chromosome),
     mutation_rate |-> current_mutation_rate,
     diversity |-> diversity]

\* line 253.  The dictionary an earlier evolve() returned holds the list
\* self.evolution_history itself (line 300), so it sees the append.
RecordStatistics ==
    /\ pc = "record"
    /\ evolution_history' = Append(evolution_history, GenerationStatistics)
    /\ result' = IF result = NoResult THEN result
                 ELSE [result EXCEPT !.evolution_history = evolution_history']
    /\ pc' = "elitism"
    /\ UNCHANGED <<args, self_vars, best_vars, local_vars, raised, call>>
    /\ UNCHANGED app_vars

\* np.argsort(fitness_scores): the default sort is not stable, so any
\* permutation that puts the scores in ascending order can come back.
ArgsortOutcomes(fitness_scores) ==
    {p \in IndexSamples(Len(fitness_scores), Len(fitness_scores)) :
        \A a, b \in 1..Len(fitness_scores) :
            a < b => fitness_scores[p[a]] <= fitness_scores[p[b]]}

\* [::-1]
Reversed(s) == [k \in 1..Len(s) |-> s[Len(s) + 1 - k]]

\* mutant: the [::-1] is forgotten, the lowest scores are kept
ElitesOfAscending(pop, p, count) ==
    [k \in 1..Min(count, Len(pop)) |-> pop[p[k]]]

\* sorted_population[:self.elite_count] for the argsort result p
ElitesOf(pop, p, count) ==
    [k \in 1..Min(count, Len(pop)) |-> pop[Reversed(p)[k]]]

\* mutant: no individual is carried over
ElitismSkipped ==
    /\ pc = "elitism"
    /\ new_population' = <<>>
    /\ pc' = "offspring"
    /\ UNCHANGED <<args, self_vars, best_vars, evolution_history, population,
                   generation, fitness_data, diversity, result, raised, call>>
    /\ UNCHANGED app_vars

\* lines 265-272
Elitism ==
    /\ pc = "elitism"
    /\ \E p \in ArgsortOutcomes(FitnessScores(fitness_data)) :
          new_population' = ElitesOf(population, p, elite_count)
    /\ pc' = "offspring"
    /\ UNCHANGED <<args, self_vars, best_vars, evolution_history, population,
                   generation, fitness_data, diversity, result, raised, call>>
    /\ UNCHANGED app_vars

\* the arrays tournament_selection can return
Parents(pop, fitness_scores, t) ==
    {sel.returned : sel \in TournamentSelection(pop, fitness_scores, t)}

\* One pass of the while loop, lines 275-287.  The writes of the two
\* adaptive_mutation calls go to the arrays they return; the population
\* changes if one of those is a member of it.
Offspring ==
    /\ pc = "offspring"
    /\ Len(new_population) < population_size
    /\ \E parent1, parent2 \in Parents(population, FitnessScores(fitness_data),
                                        tournament_size) :
       \E x \in UniformCrossover(parent1, parent2, n_features, crossover_rate) :
       \E child1 \in AdaptiveMutation(x.child1, n_features, current_mutation_rate) :
          LET after1 == Written(population, child1, child1.value)
              given2 == [x.child2 EXCEPT !.value = Deref(after1, x.child2)]
          IN  \E child2 \in AdaptiveMutation(given2, n_features, current_mutation_rate) :
                 /\ population' = Written(after1, child2, child2.value)
                 /\ new_population' =
                       new_population \o <<Deref(population', child1), child2.value>>
    /\ UNCHANGED <<pc, args, self_vars, best_vars, evolution_history,
                   generation, fitness_data, diversity, result, raised, call>>
    /\ UNCHANGED app_vars

\* mutant: the slice is left out
TruncationSkipped(pop, N) == pop

\* mutant: the last N are kept, new_population[-N:]
TruncatedToLast(pop, N) == SubSeq(pop, Max(1, Len(pop) - N + 1), Len(pop))

\* new_population[:self.population_size]
Truncated(pop, N) == SubSeq(pop, 1, Min(N, Len(pop)))

\* line 289 and the step of the for loop, line 233
NextGeneration ==
    /\ pc = "offspring"
    /\ Len(new_population) >= population_size
    /\ population' = Truncated(new_population, population_size)
    /\ IF generation + 1 < generations
       THEN /\ generation' = generation + 1
            /\ pc' = "evaluate"
       ELSE /\ generation' = generation
            /\ pc' = "return"
    /\ UNCHANGED <<args, self_vars, best_vars, evolution_history, fitness_data,
                   diversity, new_population, result, raised, call>>
    /\ UNCHANGED app_vars

\* np.where(self.best_chromosome == 1)[0].tolist(): the ascending 0-based
\* indices of the selected genes
RECURSIVE SelectedFrom(_, _)
RECURSIVE SelectedOneBasedFrom(_, _)
\* mutant: the indices are reported 1-based
SelectedOneBasedFrom(c, i) ==
    IF i > Len(c) THEN <<>>
    ELSE IF c[i] = 1 THEN <<i>> \o SelectedOneBasedFrom(c, i + 1)
    ELSE SelectedOneBasedFrom(c, i + 1)
SelectedFeaturesOneBased(c) == IF c = None THEN <<>> ELSE SelectedOneBasedFrom(c, 1)

SelectedFrom(c, i) ==
    IF i > Len(c) THEN <<>>
    ELSE IF c[i] = 1 THEN <<i - 1>> \o SelectedFrom(c, i + 1)
    ELSE SelectedFrom(c, i + 1)
SelectedFeatures(c) == IF c = None THEN <<>> ELSE SelectedFrom(c, 1)

\* mutant: accuracy and fitness_score are those of the best individual of
\* the last generation
ReturnOfLastGeneration ==
    /\ pc = "return"
    /\ IF best_accuracy = NoNumber
       THEN /\ pc' = "error"
            /\ raised' = "evolve"
            /\ UNCHANGED result
       ELSE /\ result' = [selected_features |-> SelectedFeatures(best_chromosome),
                          feature_count |-> Len(SelectedFeatures(best_chromosome)),
                          accuracy |->
                              fitness_data[ArgMax(FitnessScores(fitness_data))].accuracy,
                          fitness_score |-> MaxOf(FitnessScores(fitness_data)),
                          feature_ratio |-> best_feature_ratio,
                          evolution_history |-> evolution_history]
            /\ pc' = "done"
            /\ UNCHANGED raised
    /\ UNCHANGED <<args, self_vars, best_vars, evolution_history, local_vars, call>>
    /\ UNCHANGED app_vars

\* lines 292-301.  best_accuracy is an attribute only TrackBest creates:
\* reading it before that raises AttributeError.
Return ==
    /\ pc = "return"
    /\ IF best_accuracy = NoNumber
       THEN /\ pc' = "error"
            /\ raised' = "evolve"
            /\ UNCHANGED result
       ELSE /\ result' = [selected_features |-> SelectedFeatures(best_chromosome),
                          feature_count |-> Len(SelectedFeatures(best_chromosome)),
                          accuracy |-> best_accuracy,
                          fitness_score |-> best_fitness,
                          feature_ratio |-> best_feature_ratio,
                          evolution_history |-> evolution_history]
            /\ pc' = "done"
            /\ UNCHANGED raised
    /\ UNCHANGED <<args, self_vars, best_vars, evolution_history, local_vars, call>>
    /\ UNCHANGED app_vars

\* A caller's own call of evaluate_fitness on a constructed optimizer, with
\* any chromosome of length F (the all-zero one included).
EvaluateFitnessCall ==
    /\ pc = "constructed"
    /\ \E chromosome \in Chromosomes(n_features) :
       \E outcome \in ScorerOn(scorer, chromosome, ScorerOutcomes) :
          LET r == EvaluateFitness(chromosome, n_features, rows_match, outcome)
          IN  call' = [method |-> "evaluate_fitness",
                       chromosome |-> chromosome, outcome |-> outcome,
                       returned |-> TRUE, triple |-> r.triple,
                       scorer_called |-> r.scorer_called]
    /\ pc' = "evaluated"
    /\ UNCHANGED <<args, self_vars, best_vars, evolution_history, local_vars,
                   result, raised>>
    /\ UNCHANGED app_vars

\* ------------------------------------------------- app.py: /api/optimize
Requests == 1..MaxRequests

\* ALLOWED_EXTENSIONS
AllowedExtensions == {"csv", "xlsx", "xls"}

\* file.filename as the client sends it: a directory part, a stem and an
\* extension; NoName is the empty filename
NoName == [dir |-> "", stem |-> "", ext |-> ""]
UploadedNames ==
    {NoName} \cup [dir : {"", "../"}, stem : {"data"}, ext : {"csv", "txt"}]

\* validate_file(filename)
ValidateFile(filename) == filename.ext \in AllowedExtensions

\* secure_filename(file.filename): path separators
\* and leading dots do not survive
SecureFilename(filename) == [filename EXCEPT !.dir = ""]

\* os.path.join(app.config['UPLOAD_FOLDER'], filename) for the names that
\* pass validate_file
UploadPaths == {SecureFilename(n) : n \in {u \in UploadedNames : ValidateFile(u)}}

\* no file at a path; a file holds the dataset of the request that wrote it
NoFile == 0
\* df before pd.read_csv has returned
NoDataset == 0
NoRequest == [pc |-> "new", filepath |-> NoName, df |-> NoDataset,
              status |-> 0, error |-> "none"]

\* lines 126-140: the checks of the upload, secure_filename and file.save,
\* which creates the file or replaces the one that is there
SaveUpload(r) ==
    /\ request[r].pc = "new"
    /\ \E name \in UploadedNames :
          IF name = NoName \/ ~ValidateFile(name)
          THEN /\ request' = [request EXCEPT ![r].pc = "returned",
                                             ![r].status = 400]
               /\ UNCHANGED upload_folder
          ELSE /\ upload_folder' =
                     [upload_folder EXCEPT ![SecureFilename(name)] = r]
               /\ request' = [request EXCEPT ![r].pc = "saved",
                                             ![r].filepath = SecureFilename(name)]
    /\ UNCHANGED optimizer_vars

\* lines 143-147: pd.read_csv(filepath) reads what is at the path now and
\* raises FileNotFoundError when nothing is
LoadDataset(r) ==
    /\ request[r].pc = "saved"
    /\ IF upload_folder[request[r].filepath] = NoFile
       THEN request' = [request EXCEPT ![r].pc = "except",
                                       ![r].error = "FileNotFoundError"]
       ELSE request' = [request EXCEPT ![r].pc = "loaded",
                                       ![r].df = upload_folder[request[r].filepath]]
    /\ UNCHANGED <<upload_folder, optimizer_vars>>

\* lines 149-207: the parameters, the optimizer of this request and the
\* analysis; any of them can raise (int() of a form field, evolve())
Optimize(r) ==
    /\ request[r].pc = "loaded"
    /\ \/ request' = [request EXCEPT ![r].pc = "computed"]
       \/ request' = [request EXCEPT ![r].pc = "except", ![r].error = "Exception"]
    /\ UNCHANGED <<upload_folder, optimizer_vars>>

\* lines 210-212: os.remove(filepath) and the response
CleanUp(r) ==
    /\ request[r].pc = "computed"
    /\ IF upload_folder[request[r].filepath] = NoFile
       THEN /\ request' = [request EXCEPT ![r].pc = "except",
                                          ![r].error = "FileNotFoundError"]
            /\ UNCHANGED upload_folder
       ELSE /\ upload_folder' = [upload_folder EXCEPT ![request[r].filepath] = NoFile]
            /\ request' = [request EXCEPT ![r].pc = "returned", ![r].status = 200]
    /\ UNCHANGED optimizer_vars

\* lines 214-215: the handler looks whether the file is there
HandleException(r) ==
    /\ request[r].pc = "except"
    /\ IF upload_folder[request[r].filepath] = NoFile
       THEN request' = [request EXCEPT ![r].pc = "returned", ![r].status = 500]
       ELSE request' = [request EXCEPT ![r].pc = "except_remove"]
    /\ UNCHANGED <<upload_folder, optimizer_vars>>

\* lines 216-217: os.remove(filepath) in the handler; when the file has
\* gone since the look, FileNotFoundError leaves optimize_features and the
\* server answers 500 itself
RemoveInHandler(r) ==
    /\ request[r].pc = "except_remove"
    /\ IF upload_folder[request[r].filepath] = NoFile
       THEN /\ request' = [request EXCEPT ![r].pc = "returned", ![r].status = 500,
                                          ![r].error = "FileNotFoundError"]
            /\ UNCHANGED upload_folder
       ELSE /\ upload_folder' = [upload_folder EXCEPT ![request[r].filepath] = NoFile]
            /\ request' = [request EXCEPT ![r].pc = "returned", ![r].status = 500]
    /\ UNCHANGED optimizer_vars

\* ---------------------------------------------------------- specification
ConstructorArgs ==
    {a \in [F : FeatureCounts, N : PopulationSizes, G : GenerationBudgets,
            elite_tenths : EliteTenths, tournament_size : TournamentSizes,
            mutation_rate : {DefaultMutationRate},
            rows_match : BOOLEAN, scorer : {Unpredictable}] : a.N * a.G <= MaxWork}

\* before __init__ runs on one of the given argument lists
InitOf(arguments) ==
    /\ pc = "new"
    /\ args \in arguments
    /\ rows_match = FALSE
    /\ scorer = Unpredictable
    /\ n_features = NoNumber /\ population_size = NoNumber
    /\ generations = NoNumber
    /\ initial_mutation_rate = NoNumber /\ current_mutation_rate = NoNumber
    /\ crossover_rate = NoNumber /\ elite_count = NoNumber
    /\ tournament_size = NoNumber
    /\ best_chromosome = None /\ best_fitness = NoNumber
    /\ best_accuracy = NoNumber /\ best_feature_ratio = None
    /\ evolution_history = <<>>
    /\ population = <<>> /\ generation = 0 /\ fitness_data = <<>>
    /\ diversity = None /\ new_population = <<>>
    /\ result = NoResult
    /\ raised = "none"
    /\ call = NoCall
    /\ upload_folder = [path \in UploadPaths |-> NoFile]
    /\ request = [r \in Requests |-> NoRequest]

Init == InitOf(ConstructorArgs)

Next ==
    \/ Construct
    \/ InitializePopulation
    \/ EvaluatePopulation
    \/ TrackBest
    \/ AdaptMutationRate
    \/ RecordStatistics
    \/ Elitism
    \/ Offspring
    \/ NextGeneration
    \/ Return
    \/ EvaluateFitnessCall

Spec == Init /\ [][Next]_vars

\* ------------------------------------------------- evolve() called again
\* The caller calls evolve() once more on the optimizer that has returned.
\* Nothing at the head of evolve() (lines 225-231) assigns best_chromosome,
\* best_fitness, best_accuracy, best_feature_ratio or evolution_history:
\* the second call starts from what the first one left in them.  The
\* locals are those of a new frame.
EvolveAgain ==
    /\ pc = "done"
    /\ population_size * (Len(evolution_history) + generations) <= MaxWork
    /\ \/ /\ InitializePopulationCanRaise(population_size, n_features)
          /\ pc' = "error"
          /\ raised' = "initialize_population"
          /\ UNCHANGED local_vars
       \/ /\ \E p \in InitialPopulations(population_size, n_features) :
                 population' = p
          /\ generation' = 0
          /\ fitness_data' = <<>>
          /\ diversity' = None
          /\ new_population' = <<>>
          /\ pc' = IF generations > 0 THEN "evaluate" ELSE "return"
          /\ UNCHANGED raised
    /\ UNCHANGED <<args, self_vars, best_vars, evolution_history, result, call>>
    /\ UNCHANGED app_vars

NextAgain ==
    \/ Next
    \/ EvolveAgain

SpecAgain == Init /\ [][NextAgain]_vars

\* ------------------------------------------- direct calls of the operators
\* A caller that constructs an optimizer and then calls one of its
\* operators itself, with arguments of its own (adapt_mutation_rate any
\* number of times); `call` holds the arguments and the return value of
\* the latest call.

\* mutation_rate as src/app.py reads it from the request form: 0.15, 0.2,
\* 0.5 and 1.0
CallerMutationRates == {DefaultMutationRate, 2000, 5000, RateOne}

CallerArgs ==
    [F : 1..MaxF, N : {MaxN}, G : {1}, elite_tenths : {1},
     tournament_size : {DefaultTournamentSize},
     mutation_rate : CallerMutationRates, rows_match : {TRUE},
     scorer : {Unpredictable}]

\* the same caller with the tournament sizes of the main specification
SelectionArgs ==
    [F : 1..MaxF, N : {MaxN}, G : {1}, elite_tenths : {1},
     tournament_size : TournamentSizes, mutation_rate : {DefaultMutationRate},
     rows_match : {TRUE}, scorer : {Unpredictable}]

\* The scorer of lines 116-127 as a table: one outcome for every
\* selection of columns.  The empty selection never reaches the scorer
\* (line 104).
ScorerTables(F) ==
    {t \in [Chromosomes(F) -> ScorerOutcomes] :
        \A c \in Chromosomes(F) : Ones(c) = 0 => t[c] = ScorerFails}

\* the constructor's arguments with a dataset on which the scorer is
\* deterministic
DeterministicArgs ==
    {a \in [F : FeatureCounts, N : PopulationSizes, G : GenerationBudgets,
            elite_tenths : EliteTenths, tournament_size : TournamentSizes,
            mutation_rate : {DefaultMutationRate}, rows_match : BOOLEAN,
            scorer : UNION {ScorerTables(F) : F \in FeatureCounts}] :
        /\ a.N * a.G <= MaxWork
        /\ a.scorer \in ScorerTables(a.F)}

InitDeterministic == InitOf(DeterministicArgs)
SpecDeterministic == InitDeterministic /\ [][Next]_vars

\* the server with its requests in flight; the optimizer of a request is
\* a local of optimize_features
InitUploads == InitOf({NoArgs})
NextUploads ==
    \E r \in Requests :
        \/ SaveUpload(r)
        \/ LoadDataset(r)
        \/ Optimize(r)
        \/ CleanUp(r)
        \/ HandleException(r)
        \/ RemoveInHandler(r)
SpecUploads == InitUploads /\ [][NextUploads]_vars

\* the lists of at most n chromosomes of length F
PopulationsUpTo(n, F) == UNION {[1..k -> Chromosomes(F)] : k \in 0..n}

\* calculate_diversity(population)
CalculateDiversityCall ==
    /\ pc = "constructed"
    /\ \E pop \in PopulationsUpTo(MaxN, n_features) :
          call' = [method |-> "calculate_diversity", population |-> pop,
                   returned |-> CalculateDiversity(pop, n_features)]
    /\ pc' = "called"
    /\ UNCHANGED <<args, self_vars, best_vars, evolution_history, local_vars,
                   result, raised>>
    /\ UNCHANGED app_vars

\* the diversities the caller passes: 0, 0.1, 0.2, ... 1
DiversityValues == {Rat(k, 10) : k \in 0..10}

\* adapt_mutation_rate(diversity); `before` is the current rate it found
AdaptMutationRateCall ==
    /\ pc \in {"constructed", "adapted"}
    /\ pc' = "adapted"
    /\ \E d \in DiversityValues :
          /\ current_mutation_rate' = AdaptedMutationRate(initial_mutation_rate, d)
          /\ call' = [method |-> "adapt_mutation_rate", diversity |-> d,
                      before |-> current_mutation_rate]
    /\ UNCHANGED <<args, rows_match, scorer, n_features, population_size, generations,
                   initial_mutation_rate, crossover_rate, elite_count,
                   tournament_size, best_vars, evolution_history, local_vars,
                   result, raised>>
    /\ UNCHANGED app_vars

\* the fitness scores the caller passes with a population: 0.5 and 0.75
CallerFitnessValues == {2 * AccOne, 3 * AccOne}

\* tournament_selection(population, fitness_scores) on a list of the
\* caller.  given is the list as it was passed, population the list as it
\* is now.
TournamentSelectionCall ==
    /\ pc = "constructed"
    /\ \E pop \in PopulationsUpTo(MaxN, n_features) :
       \E fs \in [1..Len(pop) -> CallerFitnessValues] :
          IF TournamentRaises(pop, tournament_size)
          THEN call' = [method |-> "tournament_selection", raises |-> TRUE,
                        given |-> pop, population |-> pop, fitness_scores |-> fs,
                        tournament_indices |-> <<>>, winner_idx |-> 0,
                        returned |-> NewArray(<<>>), modified |-> FALSE]
          ELSE \E sel \in TournamentSelection(pop, fs, tournament_size) :
                  call' = [method |-> "tournament_selection", raises |-> FALSE,
                           given |-> pop, population |-> pop, fitness_scores |-> fs,
                           tournament_indices |-> sel.tournament_indices,
                           winner_idx |-> sel.winner_idx,
                           returned |-> sel.returned, modified |-> FALSE]
    /\ pc' = "called"
    /\ UNCHANGED <<args, self_vars, best_vars, evolution_history, local_vars,
                   result, raised>>
    /\ UNCHANGED app_vars

\* the caller flips the first gene of the array tournament_selection
\* returned
WriteReturned ==
    /\ pc = "called"
    /\ call.method = "tournament_selection"
    /\ ~call.raises /\ ~call.modified
    /\ LET v == [Deref(call.population, call.returned) EXCEPT ![1] = 1 - @]
       IN  call' = [call EXCEPT !.returned = [call.returned EXCEPT !.value = v],
                                !.population = Written(call.population,
                                                       call.returned, v),
                                !.modified = TRUE]
    /\ pc' = "written"
    /\ UNCHANGED <<args, self_vars, best_vars, evolution_history, local_vars,
                   result, raised>>
    /\ UNCHANGED app_vars

\* uniform_crossover(parent1, parent2) on two arrays of the caller
UniformCrossoverCall ==
    /\ pc = "constructed"
    /\ \E p1, p2 \in Chromosomes(n_features) :
       \E x \in UniformCrossover(NewArray(p1), NewArray(p2), n_features,
                                  crossover_rate) :
          call' = [method |-> "uniform_crossover", parent1 |-> p1, parent2 |-> p2,
                   crossed |-> x.crossed, before_repair |-> x.before_repair,
                   child1 |-> x.child1.value, child2 |-> x.child2.value]
    /\ pc' = "called"
    /\ UNCHANGED <<args, self_vars, best_vars, evolution_history, local_vars,
                   result, raised>>
    /\ UNCHANGED app_vars

InitCalls == InitOf(CallerArgs)

NextCalls ==
    \/ Construct
    \/ CalculateDiversityCall
    \/ AdaptMutationRateCall
    \/ UniformCrossoverCall

SpecCalls == InitCalls /\ [][NextCalls]_vars

InitSelection == InitOf(SelectionArgs)

NextSelection ==
    \/ Construct
    \/ TournamentSelectionCall
    \/ WriteReturned

SpecSelection == InitSelection /\ [][NextSelection]_vars

\* ================================================================ claims
InLoop == pc \in {"evaluate", "track_best", "adapt", "record", "elitism", "offspring"}

\* C1: every chromosome held in a population (the initial ones, the elites
\* and every child appended by the offspring loop) and the stored best
\* chromosome has at least one gene equal to 1.
C1_NoAllZeroChromosome ==
    /\ \A i \in 1..Len(population) : Ones(population[i]) >= 1
    /\ \A i \in 1..Len(new_population) : Ones(new_population[i]) >= 1
    /\ best_chromosome # None => Ones(best_chromosome) >= 1

\* C1 witness: a next population of a later generation that holds a child
\* which is no member of the population it was bred from.
C1_Witness ==
    /\ pc = "offspring"
    /\ generation >= 1
    /\ Len(new_population) >= population_size
    /\ \E k \in (elite_count + 1)..Len(new_population) :
          \A i \in 1..Len(population) : new_population[k] # population[i]

\* C2: the best_fitness fields of consecutive generation records never
\* decrease.
C2_BestFitnessMonotone ==
    \A g \in 1..(Len(evolution_history) - 1) :
        evolution_history[g + 1].best_fitness >= evolution_history[g].best_fitness

\* C2 witness: a second record has been appended in a generation whose own
\* best individual scores below the best of the first generation.
C2_Witness ==
    /\ pc = "elitism"
    /\ Len(evolution_history) >= 2
    /\ MaxOf(FitnessScores(fitness_data)) < evolution_history[1].best_fitness

\* the step that makes new_population the population of the next generation
NextGenerationStep == pc = "offspring" /\ pc' # "offspring"

\* the indices ordered by descending score, equal scores by ascending index
StableRanking(scores) ==
    CHOOSE p \in IndexSamples(Len(scores), Len(scores)) :
        \A a, b \in 1..Len(scores) :
            a < b => \/ scores[p[a]] > scores[p[b]]
                     \/ scores[p[a]] = scores[p[b]] /\ p[a] < p[b]

\* C3 as stated: the first elite_count chromosomes of the next generation
\* are the elite_count best of this generation in descending fitness order,
\* chromosomes of equal fitness in their original population order.
C3_ElitesTiesInPopulationOrder ==
    [][NextGenerationStep =>
          \A k \in 1..elite_count :
              population'[k] =
                  population[StableRanking(FitnessScores(fitness_data))[k]]]_vars

\* C3 amended: the first elite_count chromosomes of the next generation are
\* the chromosomes at elite_count distinct indices of this generation, in
\* non-increasing fitness order, and no chromosome left out scores higher
\* than the last elite; nothing is promised about the order of equal scores.
C3_ElitesAreTopByFitness ==
    [][NextGenerationStep =>
          LET scores == FitnessScores(fitness_data) IN
          \E idx \in IndexSamples(Len(population), elite_count) :
              /\ \A k \in 1..elite_count : population'[k] = population[idx[k]]
              /\ \A k \in 1..(elite_count - 1) : scores[idx[k]] >= scores[idx[k + 1]]
              /\ \A j \in 1..Len(population) :
                    (\A k \in 1..elite_count : idx[k] # j)
                        => scores[j] <= scores[idx[elite_count]]]_vars

\* C3 witness: two elites are carried over, two different chromosomes tie
\* for the best score, and the one with the higher index is ranked first.
C3_Witness ==
    /\ pc = "offspring"
    /\ Len(new_population) >= population_size
    /\ elite_count >= 2
    /\ LET scores == FitnessScores(fitness_data) IN
       \E i, j \in 1..Len(population) :
          /\ i < j
          /\ scores[i] = MaxOf(scores) /\ scores[j] = MaxOf(scores)
          /\ population[i] # population[j]
          /\ new_population[1] = population[j]
          /\ new_population[2] = population[i]

\* the configuration the optimizer was (or is being) built with
ConfiguredF == IF pc \in {"new", "construct_error"} THEN args.F ELSE n_features
ConfiguredN == IF pc \in {"new", "construct_error"} THEN args.N ELSE population_size
ConfiguredG == IF pc \in {"new", "construct_error"} THEN args.G ELSE generations
ConfiguredRowsMatch ==
    IF pc \in {"new", "construct_error"} THEN args.rows_match ELSE rows_match
\* what section 6 of the specification accepts
ValidConfiguration ==
    ConfiguredF >= 1 /\ ConfiguredN >= 2 /\ ConfiguredG >= 1 /\ ConfiguredRowsMatch

\* C4 as stated: an optimizer with F = 0, N < 2, G < 1 or X and y of
\* different row counts never gets past its constructor.
C4_InvalidConfigurationRejected ==
    ~ValidConfiguration => pc \in {"new", "construct_error"}

\* C5 as stated: with a single feature and otherwise valid arguments no
\* exception leaves evolve(), every chromosome of the population is the
\* mask [1], and the result reports feature_ratio = 1.
C5_SingleFeatureRunCompletes ==
    (ValidConfiguration /\ ConfiguredF = 1) =>
        /\ raised = "none"
        /\ InLoop => \A i \in 1..Len(population) : population[i] = <<1>>
        /\ pc = "done" => RatEq(result.feature_ratio, <<1, 1>>)

\* C6 as stated: the feature_ratio evaluate_fitness returns is exactly
\* (number of genes equal to 1) / F, for every chromosome and every
\* behaviour of the scorer.
C6_FeatureRatioAlwaysExact ==
    /\ call.returned =>
          RatEq(call.triple.feature_ratio, <<Ones(call.chromosome), n_features>>)
    /\ pc = "track_best" =>
          \A i \in 1..Len(population) :
              RatEq(fitness_data[i].feature_ratio,
                    <<Ones(population[i]), n_features>>)

\* C6 amended: the feature_ratio evaluate_fitness returns is exactly
\* (number of genes equal to 1) / F when at least one gene is selected and
\* the scorer returns an accuracy; for the all-zero chromosome and whenever
\* the scorer fails it is 1.0.
C6_FeatureRatioExactUnlessDegraded ==
    /\ call.returned =>
          IF Ones(call.chromosome) >= 1 /\ call.outcome.ok /\ rows_match
          THEN RatEq(call.triple.feature_ratio,
                     <<Ones(call.chromosome), n_features>>)
          ELSE RatEq(call.triple.feature_ratio, <<1, 1>>)
    /\ pc = "track_best" =>
          \A i \in 1..Len(population) :
              \/ RatEq(fitness_data[i].feature_ratio,
                       <<Ones(population[i]), n_features>>)
              \/ /\ fitness_data[i].accuracy = 0
                 /\ RatEq(fitness_data[i].feature_ratio, <<1, 1>>)

\* C6 witness: evaluate_fitness has returned for a chromosome that selects
\* some but not all features and on which the scorer failed.
C6_Witness ==
    /\ call.returned
    /\ ~call.outcome.ok
    /\ Ones(call.chromosome) >= 1
    /\ Ones(call.chromosome) < n_features

\* C7: whenever evolve() is inside or past its loop the population holds
\* exactly N chromosomes: the three bands of initialize_population add up
\* to N, and the next population is cut to N when the offspring loop has
\* appended one child too many.
C7_PopulationSizeExact ==
    (InLoop \/ pc \in {"return", "done"}) => Len(population) = population_size

\* C7 witness: a generation has started whose population was cut from a
\* new_population of N + 1 chromosomes.
C7_Witness ==
    /\ pc = "evaluate"
    /\ generation >= 1
    /\ Len(new_population) = population_size + 1
    /\ Len(population) = population_size

\* C8 as stated: a run of evolve() on a fresh, validly configured optimizer
\* ends by returning, after exactly G generations, a history of exactly G
\* records numbered 1, 2, ..., G.
C8_RunReturnsAfterGGenerations ==
    (ValidConfiguration /\ pc \in {"done", "error"}) =>
        /\ pc = "done"
        /\ Len(result.evolution_history) = generations
        /\ \A g \in 1..Len(result.evolution_history) :
              result.evolution_history[g].generation = g

\* C9 as stated: the all-zero chromosome gets (0.0, 1.0, 0.0) without a
\* call of the scorer, a failing scorer gets (0.0, 1.0, 0.0), and whatever
\* the scorer does no exception leaves evolve() (F >= 1, N >= 2, G >= 1).
C9_ScorerFailuresAbsorbed ==
    /\ (call.returned /\ Ones(call.chromosome) = 0) =>
          call.triple = WorstTriple /\ ~call.scorer_called
    /\ (call.returned /\ (~call.outcome.ok \/ ~rows_match)) =>
          call.triple = WorstTriple
    /\ (ConfiguredF >= 1 /\ ConfiguredN >= 2 /\ ConfiguredG >= 1) => raised = "none"

\* C10: the returned selected_features are strictly ascending, they are
\* exactly the 0-based positions of the 1 genes of the best chromosome,
\* feature_count is their number and at least 1, and the last history
\* record has the same feature_count.
C10_ResultDescribesBest ==
    pc = "done" =>
        LET sel == result.selected_features IN
        /\ \A a, b \in 1..Len(sel) : a < b => sel[a] < sel[b]
        /\ {sel[a] : a \in 1..Len(sel)} =
              {i \in 0..(n_features - 1) : best_chromosome[i + 1] = 1}
        /\ result.feature_count = Len(sel)
        /\ result.feature_count >= 1
        /\ result.evolution_history # <<>>
        /\ result.evolution_history[Len(result.evolution_history)].feature_count
              = result.feature_count

\* C10 witness: a run of two generations has returned a best chromosome
\* with two selected features that was found in the second generation.
C10_Witness ==
    /\ pc = "done"
    /\ result.feature_count >= 2
    /\ Len(result.evolution_history) >= 2
    /\ result.evolution_history[1].feature_count = 1

\* the pairs calculate_diversity compares: the first DiversitySample
\* individuals, each with every later one
ComparedPairs(pop) ==
    {pr \in (1..Min(DiversitySample, Len(pop))) \X (1..Min(DiversitySample, Len(pop))) :
        pr[1] < pr[2]}

\* C11: calculate_diversity returns a value in [0, 1]; it is 0 for fewer
\* than two individuals, 0 when all chromosomes are identical, and 1 when
\* every compared pair differs in every gene position.
C11_DiversityInUnitInterval ==
    call.method = "calculate_diversity" =>
        LET d == call.returned
            pop == call.population
        IN  /\ d[2] > 0 /\ 0 <= d[1] /\ d[1] <= d[2]
            /\ Len(pop) < 2 => d[1] = 0
            /\ (\A i, j \in 1..Len(pop) : pop[i] = pop[j]) => d[1] = 0
            /\ ( /\ Len(pop) >= 2
                 /\ \A pr \in ComparedPairs(pop) : \A g \in 1..n_features :
                        pop[pr[1]][g] # pop[pr[2]][g] )
               => d[1] = d[2]

\* C11 witness: a call with two chromosomes of two genes that differ in
\* both positions has returned 1.
C11_Witness ==
    /\ call.method = "calculate_diversity"
    /\ n_features = 2
    /\ Len(call.population) = 2
    /\ Hamming(call.population[1], call.population[2]) = 2
    /\ call.returned = <<1, 1>>

TrackBestStep == pc = "track_best" /\ pc' = "adapt"
RecordStep == pc = "record" /\ pc' = "elitism"

\* C12: the best-ever record is replaced only when an individual of the
\* current generation scores strictly above the stored best fitness (an
\* equal score never replaces it), it then becomes that individual's
\* chromosome, fitness and accuracy; and every appended record carries the
\* best-ever fitness, accuracy and feature count (all of one chromosome)
\* and the means of the current generation's fitness and accuracy.
C12_BestEverStrictAndRecorded ==
    [][ /\ (best_chromosome' # best_chromosome \/ best_fitness' # best_fitness
              \/ best_accuracy' # best_accuracy)
           => (pc = "new" \/ TrackBestStep)
        /\ TrackBestStep =>
              LET scores == FitnessScores(fitness_data) IN
              IF \E i \in 1..Len(scores) : scores[i] > best_fitness
              THEN \E i \in 1..Len(scores) :
                      /\ \A j \in 1..Len(scores) : scores[j] <= scores[i]
                      /\ best_chromosome' = population[i]
                      /\ best_fitness' = scores[i]
                      /\ best_accuracy' = fitness_data[i].accuracy
              ELSE UNCHANGED <<best_chromosome, best_fitness, best_accuracy>>
        /\ RecordStep =>
              LET r == evolution_history'[Len(evolution_history')]
                  n == Len(population)
              IN  /\ Len(evolution_history') = Len(evolution_history) + 1
                  /\ r.best_fitness = best_fitness
                  /\ r.best_accuracy = best_accuracy
                  /\ r.feature_count = Ones(best_chromosome)
                  /\ Len(fitness_data) = n
                  /\ r.avg_fitness[1] * n
                        = SumSeq(FitnessScores(fitness_data)) * r.avg_fitness[2]
                  /\ r.avg_accuracy[1] * n
                        = SumSeq(AccuracyScores(fitness_data)) * r.avg_accuracy[2]
      ]_vars

\* C12 witness: the record of a second generation has been appended whose
\* best individual scores exactly the stored best fitness but is another
\* chromosome than the stored one, with more genes selected.
C12_Witness ==
    /\ pc = "elitism"
    /\ Len(evolution_history) = 2
    /\ MaxOf(FitnessScores(fitness_data)) = best_fitness
    /\ population[ArgMax(FitnessScores(fitness_data))] # best_chromosome
    /\ Ones(population[ArgMax(FitnessScores(fitness_data))]) # Ones(best_chromosome)
    /\ evolution_history[2].feature_count = Ones(best_chromosome)

ReturnStep == pc = "return" /\ pc' = "done"

\* C13: the best-ever record and the history belong to one evolve() call:
\* also when evolve() is called again on the same optimizer, the best-ever
\* chromosome and fitness after the first generation of the call are those
\* of that generation's best individual, and the returned history holds
\* exactly G records numbered 1..G.
C13_BestEverScopedToInvocation ==
    [][ /\ (TrackBestStep /\ generation = 0) =>
              LET scores == FitnessScores(fitness_data) IN
              /\ best_fitness' = MaxOf(scores)
              /\ best_chromosome' = population[ArgMax(scores)]
        /\ ReturnStep =>
              /\ Len(result'.evolution_history) = generations
              /\ \A g \in 1..Len(result'.evolution_history) :
                    result'.evolution_history[g].generation = g
      ]_vars

\* the order of the steps of one generation
StepOrder ==
    {<<"evaluate", "track_best">>, <<"track_best", "adapt">>,
     <<"track_best", "error">>, <<"adapt", "record">>, <<"record", "elitism">>,
     <<"elitism", "offspring">>, <<"offspring", "evaluate">>,
     <<"offspring", "return">>}

OffspringStep == pc = "offspring" /\ pc' = "offspring"

\* C14: a generation evaluates all N individuals, then updates the
\* best-ever record, then measures the diversity of the population before
\* reproduction and adapts the mutation rate, then appends the record, then
\* reproduces; the record of generation g holds the rate derived from
\* generation g's diversity, and every pass of the offspring loop that
\* breeds generation g+1 mutates with exactly that rate.
C14_RateOfGenerationUsedForOffspring ==
    [][ /\ (InLoop /\ pc' # pc) => <<pc, pc'>> \in StepOrder
        /\ fitness_data' # fitness_data
              => pc = "evaluate" /\ Len(fitness_data') = population_size
        /\ best_fitness' # best_fitness => pc \in {"new", "track_best"}
        /\ (diversity' # diversity \/ current_mutation_rate' # current_mutation_rate)
              => pc \in {"new", "adapt"}
        /\ pc = "adapt" =>
              /\ RatEq(diversity', CalculateDiversity(population, n_features))
              /\ current_mutation_rate'
                    = AdaptedMutationRate(initial_mutation_rate, diversity')
        /\ evolution_history' # evolution_history => pc = "record"
        /\ new_population' # new_population => pc \in {"elitism", "offspring"}
        /\ population' # population
              => pc = "constructed" \/ (pc = "offspring" /\ pc' # "offspring")
        /\ OffspringStep =>
              LET r == evolution_history[Len(evolution_history)] IN
              /\ r.generation = generation + 1
              /\ r.diversity = CalculateDiversity(population, n_features)
              /\ r.mutation_rate = AdaptedMutationRate(initial_mutation_rate, r.diversity)
              /\ current_mutation_rate = r.mutation_rate
      ]_vars

\* C14 witness: children of the third generation have been bred with a rate
\* that differs from the rate in the first generation's record.
C14_Witness ==
    /\ pc = "offspring"
    /\ Len(evolution_history) = 2
    /\ Len(new_population) > elite_count
    /\ current_mutation_rate = evolution_history[2].mutation_rate
    /\ evolution_history[2].mutation_rate # evolution_history[1].mutation_rate

\* C15: after adapt_mutation_rate(d) the current rate is 0.7 * m0 when
\* d > 0.4, min(0.3, 1.5 * m0) when d < 0.2 and m0 otherwise (d = 0.2 and
\* d = 0.4 included), whatever the current rate was before; the initial
\* rate m0 is never modified once the optimizer is constructed.
C15_AdaptIsMemorylessThreeBand ==
    [][ /\ pc # "new" => initial_mutation_rate' = initial_mutation_rate
        /\ call'.method = "adapt_mutation_rate" =>
              LET d == call'.diversity
                  m0 == initial_mutation_rate
                  rate == current_mutation_rate'
              IN  IF 5 * d[1] > 2 * d[2] THEN 10 * rate = 7 * m0
                  ELSE IF 5 * d[1] < d[2]
                       THEN IF 15 * m0 <= 3 * RateOne THEN 10 * rate = 15 * m0
                            ELSE 10 * rate = 3 * RateOne
                       ELSE rate = m0
      ]_vars

\* C15 witness: the rate had been moved away from m0 by an earlier call,
\* and a call with a diversity of exactly 0.4 has set it back to m0.
C15_Witness ==
    /\ call.method = "adapt_mutation_rate"
    /\ call.diversity = <<2, 5>>
    /\ call.before # initial_mutation_rate
    /\ current_mutation_rate = initial_mutation_rate

\* C16: for every initial rate m0 in (0, 1], a call with diversity below
\* 0.2 leaves a current rate that is at least m0 and strictly above the
\* rate of the high-diversity band (0.7 * m0), and a call with diversity
\* above 0.4 leaves a current rate below m0.
C16_LowDiversityRaisesRate ==
    call.method = "adapt_mutation_rate" =>
        LET d == call.diversity
            m0 == initial_mutation_rate
        IN  /\ 5 * d[1] < d[2]
                 => /\ current_mutation_rate >= m0
                    /\ 10 * current_mutation_rate > 7 * m0
            /\ 5 * d[1] > 2 * d[2] => current_mutation_rate < m0

\* C17: tournament_selection draws min(tournament_size, population size)
\* pairwise distinct indices of the population it is given and returns a
\* chromosome equal to the drawn individual of maximal fitness (no drawn
\* individual scores strictly higher); the returned array is a copy, so
\* writing into it leaves the population as it was given.
C17_TournamentReturnsCopyOfBestSampled ==
    (call.method = "tournament_selection" /\ ~call.raises) =>
        LET idx == call.tournament_indices
            pop == call.given
            w == call.winner_idx
        IN  /\ Len(idx) = Min(tournament_size, Len(pop))
            /\ \A k \in 1..Len(idx) : idx[k] \in 1..Len(pop)
            /\ \A a, b \in 1..Len(idx) : a # b => idx[a] # idx[b]
            /\ \E k \in 1..Len(idx) : idx[k] = w
            /\ \A k \in 1..Len(idx) :
                  call.fitness_scores[idx[k]] <= call.fitness_scores[w]
            /\ ~call.modified => call.returned.value = pop[w]
            /\ call.population = pop

\* C17 witness: two of three individuals were drawn, the one left out
\* scores above the winner, and the caller has written into the returned
\* array, which now differs from the winner in the population.
C17_Witness ==
    /\ call.method = "tournament_selection"
    /\ ~call.raises
    /\ Len(call.given) = 3
    /\ Len(call.tournament_indices) = 2
    /\ \E j \in 1..3 : call.fitness_scores[j] > call.fitness_scores[call.winner_idx]
    /\ call.modified
    /\ call.returned.value # call.population[call.winner_idx]

\* C18: reproduction never changes what it reads: while the next
\* population is built, generation g's population and fitness scores, the
\* stored best chromosome and every chromosome already placed in the next
\* population (the elites, the earlier children) stay as they are; each
\* pass of the loop only appends its two children.
C18_ReproductionLeavesSourcesUnchanged ==
    [][ (pc \in {"elitism", "offspring"} /\ pc' = "offspring") =>
          /\ population' = population
          /\ fitness_data' = fitness_data
          /\ best_chromosome' = best_chromosome
          /\ pc = "elitism" =>
                \A k \in 1..Len(new_population') :
                    \E i \in 1..Len(population) : new_population'[k] = population[i]
          /\ pc = "offspring" =>
                /\ Len(new_population') = Len(new_population) + 2
                /\ SubSeq(new_population', 1, Len(new_population)) = new_population
      ]_vars

\* C18 witness: a pass of the offspring loop has appended a child that is
\* no member of the population it was bred from, next to an elite of that
\* population which is also the stored best chromosome.
C18_Witness ==
    /\ pc = "offspring"
    /\ Len(new_population) = elite_count + 2
    /\ new_population[1] = best_chromosome
    /\ \E i \in 1..Len(population) : population[i] = best_chromosome
    /\ \A i \in 1..Len(population) :
          new_population[elite_count + 1] # population[i]

\* a call of uniform_crossover on p1 and p2 can take the crossover branch
\* and give child1 the gene a and child2 the gene b at position i
CrossoverCanGive(p1, p2, i, a, b) ==
    ENABLED ( /\ UniformCrossoverCall
              /\ call'.parent1 = p1 /\ call'.parent2 = p2
              /\ call'.crossed
              /\ call'.before_repair[1][i] = a
              /\ call'.before_repair[2][i] = b )

\* C19 as stated: in the crossover branch each child decides on its own,
\* at every gene position, which parent to take the gene from, so all four
\* combinations (child1 from parent1 or parent2) x (child2 from parent1 or
\* parent2) can come out at every position; in the no-crossover branch
\* child1 equals parent1 and child2 equals parent2.
C19_ChildrenChooseIndependently ==
    /\ pc = "constructed" =>
          \A p1, p2 \in Chromosomes(n_features) : \A i \in 1..n_features :
             \A a, b \in {p1[i], p2[i]} : CrossoverCanGive(p1, p2, i, a, b)
    /\ (call.method = "uniform_crossover" /\ ~call.crossed) =>
          call.child1 = call.parent1 /\ call.child2 = call.parent2

\* C19 amended: in the crossover branch one draw per gene position decides
\* for both children together: child1 takes the gene of one parent and
\* child2 the gene of the other (both ways can come out), never both the
\* gene of the same parent where the parents differ; a child left without
\* a selected gene then gets exactly one gene set to 1, any other child is
\* returned as drawn.  In the no-crossover branch child1 equals parent1
\* and child2 equals parent2.
C19_ChildrenAreComplementary ==
    /\ pc = "constructed" =>
          \A p1, p2 \in Chromosomes(n_features) : \A i \in 1..n_features :
             /\ CrossoverCanGive(p1, p2, i, p1[i], p2[i])
             /\ CrossoverCanGive(p1, p2, i, p2[i], p1[i])
    /\ call.method = "uniform_crossover" =>
          LET p1 == call.parent1
              p2 == call.parent2
              drawn == call.before_repair
              returned == <<call.child1, call.child2>>
          IN  IF call.crossed
              THEN /\ \A i \in 1..n_features :
                         \/ drawn[1][i] = p1[i] /\ drawn[2][i] = p2[i]
                         \/ drawn[1][i] = p2[i] /\ drawn[2][i] = p1[i]
                   /\ \A k \in 1..2 :
                         IF Ones(drawn[k]) = 0 THEN Ones(returned[k]) = 1
                         ELSE returned[k] = drawn[k]
              ELSE returned = <<p1, p2>>

\* C19 witness: a crossover of two parents that differ in a position where
\* child1 has taken the gene of parent2 and child2 the gene of parent1.
C19_Witness ==
    /\ call.method = "uniform_crossover"
    /\ call.crossed
    /\ \E i \in 1..n_features :
          /\ call.parent1[i] # call.parent2[i]
          /\ call.before_repair[1][i] = call.parent2[i]
          /\ call.before_repair[2][i] = call.parent1[i]
          /\ call.child1[i] = call.parent2[i]
          /\ call.child2[i] = call.parent1[i]

\* the upper end the claim gives for the large-subset band: max(2, ceil(0.8 F))
ClaimedLargeBandMax(F) == Max(2, (8 * F + 9) \div 10)

\* the positions of the third band in the initial population
LargeBand(N) == (Band1Size(N) + Band2Size(N) + 1)..N

\* C20: for every F >= 1 the third band of initialize_population holds at
\* least 20% of the N individuals, each of its chromosomes has a number of
\* selected genes in max(1, floor(F/2)) .. max(2, ceil(0.8 F)), every value
\* of that range can be drawn, and no band asks for more than F genes, so
\* that the sample without replacement never fails.
C20_LargeBandCountsInRange ==
    /\ raised # "initialize_population"
    /\ (pc = "constructed" /\ population_size >= 1) =>
          /\ 5 * Cardinality(LargeBand(population_size)) >= population_size
          /\ \A n \in Max(1, n_features \div 2)..ClaimedLargeBandMax(n_features) :
                ENABLED ( /\ InitializePopulation
                          /\ Len(population') = population_size
                          /\ Ones(population'[population_size]) = n )
    /\ (pc \in {"evaluate", "return"} /\ evolution_history = <<>>) =>
          \A i \in LargeBand(population_size) :
              /\ Ones(population[i]) >= Max(1, n_features \div 2)
              /\ Ones(population[i]) <= ClaimedLargeBandMax(n_features)
              /\ Ones(population[i]) <= n_features

\* the chromosome whose selected genes are the 0-based indices in sel
ChromosomeOf(sel, F) ==
    [i \in 1..F |-> IF \E k \in 1..Len(sel) : sel[k] = i - 1 THEN 1 ELSE 0]

\* the best-ever record is the chromosome and the whole fitness triple of
\* one individual of the generation that replaced it
BestEverOfOneIndividual ==
    (TrackBestStep /\ best_vars' # best_vars) =>
        \E i \in 1..Len(population) :
            /\ best_chromosome' = population[i]
            /\ best_accuracy' = fitness_data[i].accuracy
            /\ best_feature_ratio' = fitness_data[i].feature_ratio
            /\ best_fitness' = fitness_data[i].combined_fitness

\* the result reports the best-ever record
ResultOfBestEver ==
    ReturnStep =>
        /\ ChromosomeOf(result'.selected_features, n_features) = best_chromosome
        /\ result'.feature_count = Ones(best_chromosome)
        /\ result'.accuracy = best_accuracy
        /\ result'.feature_ratio = best_feature_ratio
        /\ result'.fitness_score = best_fitness

\* C21 as stated: in every returned result, also when the scorer failed on
\* the best-ever chromosome, feature_ratio equals feature_count / F, and
\* accuracy and fitness_score are what evaluate_fitness returned for the
\* chromosome reported in selected_features.
C21_ResultFieldsConsistent ==
    [][ /\ BestEverOfOneIndividual
        /\ ResultOfBestEver
        /\ ReturnStep =>
              RatEq(result'.feature_ratio, <<result'.feature_count, n_features>>)
      ]_vars

\* C21 amended: accuracy, feature_ratio and fitness_score of the result are
\* the triple evaluate_fitness returned for the chromosome reported in
\* selected_features; feature_ratio equals feature_count / F unless that
\* triple is the worst-case triple (0.0, 1.0, 0.0) of a failed evaluation,
\* in which case feature_ratio is 1.0 whatever feature_count is.
C21_ResultIsTripleOfReportedChromosome ==
    [][ /\ BestEverOfOneIndividual
        /\ ResultOfBestEver
        /\ ReturnStep =>
              \/ RatEq(result'.feature_ratio, <<result'.feature_count, n_features>>)
              \/ /\ result'.accuracy = 0
                 /\ result'.fitness_score = 0
                 /\ result'.feature_ratio = <<1, 1>>
      ]_vars

\* C21 witness: a run has returned a best-ever chromosome on which the
\* scorer failed: one of two features selected, feature_ratio 1.0.
C21_Witness ==
    /\ pc = "done"
    /\ n_features = 2
    /\ result.feature_count = 1
    /\ result.accuracy = 0
    /\ result.feature_ratio = <<1, 1>>

\* ------------------------------------------------ deterministic scorer
Deterministic == scorer # Unpredictable
\* the evaluation of a generation after the first: fitness_data still holds
\* the scores of the generation before
LaterEvaluateStep == pc = "evaluate" /\ pc' = "track_best" /\ generation >= 1

\* C22: with a deterministic scorer the highest combined_fitness of a
\* generation's population is never below that of the generation before,
\* and the best_fitness of every appended record is the highest
\* combined_fitness of the population of the record's own generation.
C22_GenerationMaximumNonDecreasing ==
    [][ Deterministic =>
          /\ LaterEvaluateStep =>
                 MaxOf(FitnessScores(fitness_data')) >= MaxOf(FitnessScores(fitness_data))
          /\ RecordStep =>
                 evolution_history'[Len(evolution_history')].best_fitness
                    = MaxOf(FitnessScores(fitness_data)) ]_vars

C22_Witness ==
    /\ Deterministic
    /\ Len(evolution_history) = 2
    /\ evolution_history[2].best_fitness > evolution_history[1].best_fitness
    /\ evolution_history[2].best_fitness = MaxOf(FitnessScores(fitness_data))

\* the combined fitness the deterministic scorer gives a chromosome
FitnessOf(chromosome) ==
    EvaluateFitness(chromosome, n_features, rows_match,
                    scorer[chromosome]).triple.combined_fitness
\* the positions of the current generation that hold its highest score
MaximalIndices ==
    {i \in 1..Len(fitness_data) :
        fitness_data[i].combined_fitness = MaxOf(FitnessScores(fitness_data))}

\* C23 as stated: with a deterministic scorer, every generation after the
\* first starts with a population that contains a chromosome equal to the
\* stored best-ever chromosome.
C23_BestEverChromosomeSurvives ==
    (Deterministic /\ pc = "evaluate" /\ generation >= 1) =>
        \E i \in 1..Len(population) : population[i] = best_chromosome

\* C23 amended: with a deterministic scorer the population that follows a
\* generation contains a chromosome whose combined fitness is the stored
\* best fitness, and it contains the stored best-ever chromosome itself
\* whenever every individual holding the generation's highest score is
\* equal to that chromosome.
C23_BestFitnessSurvives ==
    [][ (Deterministic /\ NextGenerationStep) =>
          /\ \E j \in 1..Len(population') : FitnessOf(population'[j]) = best_fitness
          /\ (\A i \in MaximalIndices : population[i] = best_chromosome) =>
                 \E j \in 1..Len(population') : population'[j] = best_chromosome ]_vars

\* two different chromosomes tied for the highest score, one elite: the
\* next generation starts without the stored chromosome but with one of
\* its fitness
C23_Witness ==
    /\ Deterministic /\ pc = "evaluate" /\ generation >= 1 /\ elite_count = 1
    /\ Cardinality(MaximalIndices) >= 2
    /\ \A i \in 1..Len(population) : population[i] # best_chromosome
    /\ \E j \in 1..Len(population) : FitnessOf(population[j]) = best_fitness

\* ------------------------------------------------------ upload folder
SamePath(r, q) ==
    r # q /\ request[r].filepath # NoName /\ request[r].filepath = request[q].filepath
AllReturned == \A r \in Requests : request[r].pc = "returned"
UploadFolderEmpty == \A path \in UploadPaths : upload_folder[path] = NoFile

\* C24: of two requests that saved their uploads under the same path, each
\* loads the dataset it uploaded itself and neither fails on a file that
\* the other replaced or removed; and when all requests have returned no
\* file is left in the upload folder.
C24_RequestsDoNotInterfere ==
    /\ \A r, q \in Requests :
          SamePath(r, q) =>
              /\ request[r].df \in {NoDataset, r}
              /\ request[r].error # "FileNotFoundError"
    /\ AllReturned => UploadFolderEmpty
====
